---- MODULE Spec2Model ----
(***************************************************************************)
(* Model of nucypher/cli/painting/staking.py: the terminal painters        *)
(* paint_stakes, paint_staged_stake_division, paint_staged_stake,          *)
(* paint_stakers, paint_staking_confirmation and paint_staking_accounts.   *)
(*                                                                         *)
(* The emitter is the sequence `out` of the writes of the call.  A write   *)
(* records which echo statement of the source produced it (msg), and the   *)
(* colour, bold and nl arguments it was given;                             *)
(* the values interpolated into the text are held in the variables named   *)
(* after the source's locals (missing_info, rows, staged, ...).            *)
(*                                                                         *)
(* A painter that loops over a collection is modelled one loop iteration   *)
(* per step: n is the length of the collection, i the number of elements   *)
(* already visited; the element visited by an iteration is drawn when the  *)
(* loop reaches it (the source never looks ahead in the collection).       *)
(* The painters keep nothing between calls, so a behaviour is one call.    *)
(***************************************************************************)
EXTENDS Integers, Sequences, FiniteSets, TLC

\* ---------------------------------------------------------------- bounds
MaxStakers == 2      \* longest staker or account collection handed to a painter
MaxStakes == 3       \* most stakes the stakers of one call hold between them
MaxMissing == 2      \* staker.missing_confirmations ranges over -1..MaxMissing
MaxPeriod == 2       \* periods range over 0..MaxPeriod
MaxExtension == 2    \* extension ranges over 0..MaxExtension
MaxValue == 2        \* stake values range over 1..MaxValue

\* ------------------------------------------------------------ input sets
Addresses == {"0xA", "0xB"}    \* two distinct checksum addresses
None == "None"                 \* Python None for an address-valued argument
NULL_ADDRESS == "0x0"          \* nucypher.blockchain.eth.constants.NULL_ADDRESS
Periods == 0..MaxPeriod
\* Two ordering keys: enough for lists that are out of order and for ties.
OrderingKeys == {0, 1}

StakeViews == [address_index_ordering_key : OrderingKeys, is_active : BOOLEAN]
StakeLists(longest) == UNION {[1..k -> StakeViews] : k \in 0..longest}

\* the stakers whose stake list has at most `longest` stakes
StakerViews(longest) ==
    [checksum_address : Addresses,
     stakes : StakeLists(longest),
     missing_confirmations : -1..MaxMissing,
     last_active_period : {0, MaxPeriod},
     registry_source : BOOLEAN]

\* what the staking agent answers about one staker address (lines 186-190, 198)
AgentViews ==
    [last_active_period : 0..(MaxPeriod + 1),
     worker : {NULL_ADDRESS, "0xW"},
     is_restaking : BOOLEAN,
     is_restaking_locked : BOOLEAN,
     is_winding_down : BOOLEAN]

NoAgent ==
    [last_active_period |-> 0, worker |-> None, is_restaking |-> FALSE,
     is_restaking_locked |-> FALSE, is_winding_down |-> FALSE]

\* original_stake of paint_staged_stake_division
OriginalStakes ==
    [first_locked_period : Periods, final_locked_period : Periods,
     staker_address : Addresses]

\* one account of the wallet of paint_staking_accounts: its balances in wei
\* and NuNits, and the number of stakes its Staker holds once refreshed
AccountViews ==
    [account : Addresses, eth_balance : {0, MaxValue}, token_balance : {0, MaxValue},
     stakes : {0, MaxStakes}]
AccountLists == UNION {[1..k -> AccountViews] : k \in 0..MaxStakers}

NoStaker ==
    [checksum_address |-> None, stakes |-> <<>>, missing_confirmations |-> 0,
     last_active_period |-> 0, registry_source |-> FALSE]

\* --------------------------------------------------------------- emitter
\* emitter.echo(message, color=None, bold=False, nl=True)
Echo(msg, color, bold, nl) == [msg |-> msg, color |-> color, bold |-> bold, nl |-> nl]
Plain(msg) == Echo(msg, "default", FALSE, TRUE)
Bold(msg) == Echo(msg, "default", TRUE, TRUE)
Colored(msg, color) == Echo(msg, color, FALSE, TRUE)

VARIABLES
    pc,                 \* "idle": no painter called yet; "<painter>": at the head
                        \* of its loop; "<painter>_body": at the end of one iteration
                        \* of its loop; "done": the call has returned or raised
    call,               \* the painter called ("none" before the call)
    out,                \* the writes of that call, in order
    echoed,             \* the writes of the latest step (a suffix of out)
    n, i,               \* length of the collection looped over, elements visited
    \* paint_stakes
    paint_inactive, staker_address, total_stakers, queries,
    staker, missing_info, rows,
    stakes_seen,        \* history: number of stakes of the stakers visited so far
    only_empty,         \* history: every staker visited so far had no stakes
    row_painted,        \* history: some stake table of this call has a row
    \* paint_stakers
    current_period, agent, last_confirmed_period, missing_confirmations, raised,
    \* paint_staged_stake_division, paint_staged_stake
    division, staged,
    \* paint_staking_accounts
    account_rows,       \* the local `rows`
    refreshed           \* the accounts whose stakes.refresh() was called, in order

loop_vars == <<n, i>>
stakes_vars == <<paint_inactive, staker_address, total_stakers, queries,
                 staker, missing_info, rows, stakes_seen, only_empty, row_painted>>
stakers_vars == <<current_period, agent, last_confirmed_period, missing_confirmations>>
staged_vars == <<division, staged>>
accounts_vars == <<account_rows, refreshed>>
vars == <<pc, call, out, echoed, raised, loop_vars, stakes_vars, stakers_vars, staged_vars,
          accounts_vars>>

\* ========================================================== paint_stakes
\* a slip: the notice written whatever the collection holds
no_accounts_notice_always(len) == <<Plain("No staking accounts found.")>>

\* line 34: `if not stakers`
no_accounts_notice(len) ==
    IF len = 0 THEN <<Plain("No staking accounts found.")>> ELSE <<>>

\* a slip: the empty-stakes guard dropped
skip_empty_never(s) == FALSE

\* lines 39-46: the two `continue` guards of the loop body
skip_empty(s) == s.stakes = <<>>
skip_filtered(s, address) == address # None /\ s.checksum_address # address
skipped(s, address) == skip_empty(s) \/ skip_filtered(s, address)

\* line 48: sorted(staker.stakes, key=...) is a stable sort: insertion sort
\* that places each stake after the stakes whose key is <= its own.
RECURSIVE InsertByKey(_, _)
InsertByKey(t, x) ==
    IF t = <<>> THEN <<x>>
    ELSE IF t[Len(t)].address_index_ordering_key <= x.address_index_ordering_key
         THEN Append(t, x)
         ELSE Append(InsertByKey(SubSeq(t, 1, Len(t) - 1), x), t[Len(t)])

\* a slip: the stakes taken in the order given
sorted_as_given(s) == s

RECURSIVE sorted(_)
sorted(s) ==
    IF s = <<>> THEN <<>>
    ELSE InsertByKey(sorted(SubSeq(s, 1, Len(s) - 1)), s[Len(s)])

\* line 49-51: in Python 3 filter() returns an iterator object, which is
\* always truthy, whatever it would yield.
filter_object_truthy(stakes) == TRUE
no_active_notice(stakes) ==
    IF ~filter_object_truthy(stakes)
    THEN <<Plain("There are no active stakes")>> ELSE <<>>

\* a slip: the plural chosen by `missing > 0`
missing_info_plural_from_one(missing, last_confirmed) ==
    IF missing = -1 THEN "Never Confirmed (New Stake)"
    ELSE IF missing # 0
         THEN "Missing " \o ToString(missing) \o " confirmation"
              \o (IF missing > 0 THEN "s" ELSE "")
         ELSE "Confirmed #" \o ToString(last_confirmed)

\* lines 59-62
missing_info_of(missing, last_confirmed) ==
    IF missing = -1 THEN "Never Confirmed (New Stake)"
    ELSE IF missing # 0
         THEN "Missing " \o ToString(missing) \o " confirmation"
              \o (IF missing > 1 THEN "s" ELSE "")
         ELSE "Confirmed #" \o ToString(last_confirmed)

\* a slip: red only for a positive count
header_color_positive(missing) == IF missing > 0 THEN "red" ELSE "green"

\* line 75: color='red' if missing else 'green'
header_color(missing) == IF missing # 0 THEN "red" ELSE "green"

\* lines 71-74
network_line(source) == IF source THEN <<Bold("Network")>> ELSE <<>>

\* a slip: paint_inactive ignored
keep_stake_active_only(stake, inactive) == stake.is_active

\* lines 81-83: a stake is passed over when `not stake.is_active and not
\* paint_inactive`
keep_stake(stake, inactive) == ~(~stake.is_active /\ ~inactive)

\* lines 79-84: one row per stake kept, in the order of `stakes`; a row is
\* held as the stake whose describe() values fill it
stake_rows(stakes, inactive) ==
    LET keep(s) == keep_stake(s, inactive)
    IN SelectSeq(stakes, keep)

\* lines 53-55: the agent queries of one rendered staker
agent_queries == <<"policy_agent.get_reward_amount",
                   "staking_agent.get_last_active_period">>

\* lines 48-86: the writes of one rendered staker
staker_writes(s) ==
    no_active_notice(sorted(s.stakes))
    \o network_line(s.registry_source)
    \o <<Echo("Staker", header_color(s.missing_confirmations), TRUE, TRUE),
         Plain("Worker"),
         Plain("staker_table"),
         Plain("stakes_table")>>

\* a slip: the closing notice dropped
no_stakes_notice_never(total) == <<>>

\* lines 88-89
no_stakes_notice(total) ==
    IF total = 0 THEN <<Colored("No Stakes found", "red")>> ELSE <<>>

\* =========================================== paint_staged_stake_division
\* line 115
new_end_period_of(original_stake, extension) ==
    original_stake.final_locked_period + extension

\* a slip: the duration counted without its last period
new_duration_exclusive(original_stake, extension) ==
    new_end_period_of(original_stake, extension) - original_stake.first_locked_period

\* line 116
new_duration_periods_of(original_stake, extension) ==
    new_end_period_of(original_stake, extension)
        - original_stake.first_locked_period + 1

\* lines 124-131: the keyword arguments handed to paint_staged_stake
division_call(original_stake, target_value, extension) ==
    [staking_address |-> original_stake.staker_address,
     stake_value |-> target_value,
     lock_periods |-> new_duration_periods_of(original_stake, extension),
     start_period |-> original_stake.first_locked_period,
     unlock_period |-> new_end_period_of(original_stake, extension) + 1,
     division_message |-> TRUE]

\* ==================================================== paint_staged_stake
\* lines 153-170; has_message is the truthiness of division_message
staged_writes(has_message) ==
    (IF has_message
     THEN <<Bold("ORIGINAL STAKE"), Plain("division_message")>> ELSE <<>>)
    \o <<Bold("STAGED STAKE"), Plain("staged_stake"), Bold("rule")>>

\* ========================================================= paint_stakers
\* lines 19-26: the module binds no name nickname_from_seed (none of its
\* imports brings it), so evaluating line 181 raises NameError.
nickname_from_seed_bound == FALSE

\* lines 174-178
stakers_header ==
    <<Plain("Current period"), Plain("| Stakers |"), Plain("Checksum address"),
      Plain("=")>>

\* lines 197-204
restaking_line(a) ==
    IF a.is_restaking
    THEN IF a.is_restaking_locked
         THEN Plain("Re-staking: Yes (Locked until period)")
         ELSE Plain("Re-staking: Yes (Unlocked)")
    ELSE Plain("Re-staking: No")

\* lines 207-216
activity_lines(missing, period) ==
    IF missing = -1 THEN <<Colored("Next period confirmed", "green")>>
    ELSE IF missing = 0 THEN <<Colored("Current period confirmed", "yellow")>>
    ELSE IF missing = period THEN <<Colored("Never confirmed activity", "red")>>
    ELSE <<Colored("Missing confirmations", "red")>>

\* lines 219-222
worker_line(worker) ==
    IF worker = NULL_ADDRESS THEN Colored("Worker not set", "red") ELSE Plain("worker")

\* lines 183-228: the writes of one staker, once line 181 has succeeded
directory_writes(a, period) ==
    <<Plain("Nickname"), Plain("Owned"), restaking_line(a),
      Plain(IF a.is_winding_down THEN "Winding down: Yes" ELSE "Winding down: No"),
      Echo("Activity:", "default", FALSE, FALSE)>>
    \o activity_lines(period - a.last_active_period, period)
    \o <<Echo("Worker:", "default", FALSE, FALSE), worker_line(a.worker),
         Plain("Unclaimed fees"), Plain("Min reward rate")>>

\* ================================================================ actions
NoStaged ==
    [staking_address |-> None, stake_value |-> 0, lock_periods |-> 0,
     start_period |-> 0, unlock_period |-> 0, division_message |-> FALSE]
NoDivision ==
    [original_stake |-> [first_locked_period |-> 0, final_locked_period |-> 0,
                         staker_address |-> None],
     target_value |-> 0, extension |-> 0]

Init ==
    /\ pc = "idle" /\ call = "none" /\ raised = "none"
    /\ out = <<>> /\ echoed = <<>>
    /\ n = 0 /\ i = 0
    /\ paint_inactive = FALSE /\ staker_address = None
    /\ total_stakers = 0 /\ queries = <<>>
    /\ staker = NoStaker /\ missing_info = "" /\ rows = <<>>
    /\ stakes_seen = 0 /\ only_empty = TRUE /\ row_painted = FALSE
    /\ current_period = 0 /\ agent = NoAgent
    /\ last_confirmed_period = 0 /\ missing_confirmations = 0
    /\ division = NoDivision /\ staged = NoStaged
    /\ account_rows = <<>> /\ refreshed = <<>>

\* ---------------------------------------------------------- paint_stakes
\* lines 29-37
PaintStakesBegin ==
    /\ pc = "idle"
    /\ \E len \in 0..MaxStakers, inactive \in BOOLEAN, address \in Addresses \cup {None} :
        /\ n' = len
        /\ paint_inactive' = inactive
        /\ staker_address' = address
        /\ echoed' = no_accounts_notice(len)
    /\ out' = echoed'
    /\ pc' = "paint_stakes" /\ call' = "paint_stakes" /\ raised' = "none"
    /\ i' = 0 /\ total_stakers' = 0 /\ queries' = <<>>
    /\ staker' = NoStaker /\ missing_info' = "" /\ rows' = <<>>
    /\ stakes_seen' = 0 /\ only_empty' = TRUE /\ row_painted' = FALSE
    /\ current_period' = 0 /\ agent' = NoAgent
    /\ last_confirmed_period' = 0 /\ missing_confirmations' = 0
    /\ division' = NoDivision /\ staged' = NoStaged
    /\ UNCHANGED accounts_vars

\* lines 38-86: one iteration of `for staker in stakers`, up to the end of
\* the loop body (or to the `continue` that cuts it short)
PaintStakesStaker ==
    /\ pc = "paint_stakes" /\ i < n
    /\ \E s \in StakerViews(MaxStakes - stakes_seen) :
        /\ staker' = s
        /\ IF skipped(s, staker_address)
           THEN /\ echoed' = <<>>
                /\ missing_info' = "" /\ rows' = <<>>
                /\ UNCHANGED <<total_stakers, queries>>
           ELSE /\ queries' = queries \o agent_queries
                /\ missing_info' = missing_info_of(s.missing_confirmations,
                                                   s.last_active_period)
                /\ rows' = stake_rows(sorted(s.stakes), paint_inactive)
                /\ total_stakers' = total_stakers + 1
                /\ echoed' = staker_writes(s)
    /\ stakes_seen' = stakes_seen + Len(staker'.stakes)
    /\ only_empty' = (only_empty /\ staker'.stakes = <<>>)
    /\ row_painted' = (row_painted \/ rows' # <<>>)
    /\ out' = out \o echoed'
    /\ i' = i + 1
    /\ pc' = "paint_stakes_body"
    /\ UNCHANGED <<call, raised, n, paint_inactive, staker_address, stakers_vars,
                   staged_vars, accounts_vars>>

\* lines 88-89 and the return
PaintStakesEnd ==
    /\ pc = "paint_stakes" /\ i = n
    /\ echoed' = no_stakes_notice(total_stakers)
    /\ out' = out \o echoed'
    /\ pc' = "done"
    /\ UNCHANGED <<call, raised, loop_vars, stakes_vars, stakers_vars, staged_vars, accounts_vars>>

\* --------------------------------------------------------- paint_stakers
\* lines 173-178
PaintStakersBegin ==
    /\ pc = "idle"
    /\ \E len \in 0..MaxStakers, period \in Periods :
        /\ n' = len
        /\ current_period' = period
    /\ echoed' = stakers_header
    /\ out' = echoed'
    /\ pc' = "paint_stakers" /\ call' = "paint_stakers" /\ raised' = "none"
    /\ i' = 0 /\ agent' = NoAgent
    /\ last_confirmed_period' = 0 /\ missing_confirmations' = 0
    /\ paint_inactive' = FALSE /\ staker_address' = None
    /\ total_stakers' = 0 /\ queries' = <<>>
    /\ staker' = NoStaker /\ missing_info' = "" /\ rows' = <<>>
    /\ stakes_seen' = 0 /\ only_empty' = TRUE /\ row_painted' = FALSE
    /\ division' = NoDivision /\ staged' = NoStaged
    /\ UNCHANGED accounts_vars

\* lines 180-228: one iteration of `for staker in stakers`; a is what the
\* staking agent holds about the address the loop has reached
PaintStakersStaker ==
    /\ pc = "paint_stakers" /\ i < n
    /\ \E a \in AgentViews :
        /\ agent' = a
        /\ IF nickname_from_seed_bound
           THEN /\ last_confirmed_period' = a.last_active_period
                /\ missing_confirmations' = current_period - a.last_active_period
                /\ echoed' = directory_writes(a, current_period)
                /\ pc' = "paint_stakers_body"
                /\ raised' = raised
           ELSE \* line 181 raises: the exception leaves paint_stakers
                /\ raised' = "NameError"
                /\ echoed' = <<>>
                /\ pc' = "done"
                /\ UNCHANGED <<last_confirmed_period, missing_confirmations>>
    /\ out' = out \o echoed'
    /\ i' = i + 1
    /\ UNCHANGED <<call, n, current_period, stakes_vars, staged_vars, accounts_vars>>

\* the return of paint_stakers after the last address
PaintStakersEnd ==
    /\ pc = "paint_stakers" /\ i = n
    /\ pc' = "done"
    /\ echoed' = <<>>
    /\ UNCHANGED <<call, out, raised, loop_vars, stakes_vars, stakers_vars, staged_vars, accounts_vars>>

\* lines 38 and 180: back to the head of the loop; the locals of the
\* finished iteration are dead (each is assigned again before it is read)
LoopBack ==
    /\ pc \in {"paint_stakes_body", "paint_stakers_body"}
    /\ pc' = IF pc = "paint_stakes_body" THEN "paint_stakes" ELSE "paint_stakers"
    /\ staker' = NoStaker /\ missing_info' = "" /\ rows' = <<>>
    /\ agent' = NoAgent /\ last_confirmed_period' = 0 /\ missing_confirmations' = 0
    /\ echoed' = <<>>
    /\ UNCHANGED <<call, out, raised, loop_vars, paint_inactive, staker_address,
                   total_stakers, queries, stakes_seen, only_empty, row_painted,
                   current_period,
                   staged_vars, accounts_vars>>

\* -------------------------------------------------- paint_staged_stake*
\* lines 134-170, called with the arguments args
paint_staged_stake(args) ==
    /\ staged' = args
    /\ echoed' = staged_writes(args.division_message)
    /\ out' = echoed'
    /\ pc' = "done" /\ raised' = "none"
    /\ n' = 0 /\ i' = 0 /\ agent' = NoAgent /\ current_period' = 0
    /\ last_confirmed_period' = 0 /\ missing_confirmations' = 0
    /\ paint_inactive' = FALSE /\ staker_address' = None
    /\ total_stakers' = 0 /\ queries' = <<>>
    /\ staker' = NoStaker /\ missing_info' = "" /\ rows' = <<>>
    /\ stakes_seen' = 0 /\ only_empty' = TRUE /\ row_painted' = FALSE
    /\ UNCHANGED accounts_vars

\* lines 110-131
PaintStagedStakeDivision ==
    /\ pc = "idle"
    /\ \E original_stake \in OriginalStakes, target_value \in 1..MaxValue,
          extension \in 0..MaxExtension :
        /\ division' = [original_stake |-> original_stake,
                        target_value |-> target_value, extension |-> extension]
        /\ paint_staged_stake(division_call(original_stake, target_value, extension))
    /\ call' = "paint_staged_stake_division"

\* lines 134-170, called directly: no division message, and whatever periods
\* the caller passes
PaintStagedStake ==
    /\ pc = "idle"
    /\ \E address \in Addresses, value \in 1..MaxValue,
          lock \in 0..(MaxPeriod + 1), start \in Periods, unlock \in Periods :
        paint_staged_stake([staking_address |-> address, stake_value |-> value,
                            lock_periods |-> lock, start_period |-> start,
                            unlock_period |-> unlock, division_message |-> FALSE])
    /\ division' = NoDivision
    /\ call' = "paint_staged_stake"

\* ------------------------------------------- paint_staking_confirmation
\* line 234: what paint_receipt_summary (nucypher.cli.painting.transactions)
\* writes for the receipt of the new stake
receipt_summary_writes == <<Plain("receipt_summary")>>

\* lines 232-240
confirmation_writes ==
    <<Colored("Stake initialization transaction was successful.", "green"),
      Plain("Transaction details:")>>
    \o receipt_summary_writes
    \o <<Colored("StakingEscrow address", "blue"),
         Colored("next_steps", "green")>>

\* lines 231-240
PaintStakingConfirmation ==
    /\ pc = "idle"
    /\ echoed' = confirmation_writes
    /\ out' = echoed'
    /\ pc' = "done" /\ call' = "paint_staking_confirmation"
    /\ UNCHANGED <<raised, loop_vars, stakes_vars, stakers_vars, staged_vars,
                   accounts_vars>>

\* ----------------------------------------------- paint_staking_accounts
\* line 253: 'Yes' if bool(staker.stakes) else 'No'
is_staking_of(a) == IF a.stakes # 0 THEN "Yes" ELSE "No"

\* lines 246-254: one row per account, in the wallet's order; eth and nu are
\* held as the balances whose text fills the cell. showindex=True (line 256)
\* numbers the rows from 0.
account_rows_of(accounts) ==
    [k \in DOMAIN accounts |->
        [index |-> k - 1,
         is_staking |-> is_staking_of(accounts[k]),
         account |-> accounts[k].account,
         eth |-> accounts[k].eth_balance,
         nu |-> accounts[k].token_balance]]

\* line 252: staker.stakes.refresh(), once per account
refreshed_of(accounts) == [k \in DOMAIN accounts |-> accounts[k].account]

\* lines 243-256
PaintStakingAccounts ==
    /\ pc = "idle"
    /\ \E accounts \in AccountLists :
        /\ n' = Len(accounts)
        /\ i' = Len(accounts)
        /\ account_rows' = account_rows_of(accounts)
        /\ refreshed' = refreshed_of(accounts)
    /\ echoed' = <<Plain("accounts_table")>>
    /\ out' = echoed'
    /\ pc' = "done" /\ call' = "paint_staking_accounts"
    /\ UNCHANGED <<raised, stakes_vars, stakers_vars, staged_vars>>

Next ==
    \/ PaintStakesBegin \/ PaintStakesStaker \/ PaintStakesEnd
    \/ PaintStakersBegin \/ PaintStakersStaker \/ PaintStakersEnd
    \/ LoopBack
    \/ PaintStagedStakeDivision \/ PaintStagedStake
    \/ PaintStakingConfirmation \/ PaintStakingAccounts

Spec == Init /\ [][Next]_vars

\* ================================================================ claims
NoStakesFound == Colored("No Stakes found", "red")
NoAccountsFound == Plain("No staking accounts found.")
StakerMsgs == {"Network", "Staker", "Worker", "staker_table", "stakes_table"}
ActivityMsgs == {"Next period confirmed", "Current period confirmed",
                 "Never confirmed activity", "Missing confirmations"}

\* the latest step of paint_stakes rendered the staker it visited
Rendered == pc = "paint_stakes_body" /\ echoed # <<>>
\* paint_stakes has returned
StakesDone == call = "paint_stakes" /\ pc = "done"
\* the latest step of paint_stakers visited a staker
Visited == call = "paint_stakers" /\ agent # NoAgent

Count(seq, x) == Cardinality({k \in DOMAIN seq : seq[k] = x})
Positions(seq, msgs) == {k \in DOMAIN seq : seq[k].msg \in msgs}
KeySorted(seq) ==
    \A a, b \in DOMAIN seq :
        a < b => seq[a].address_index_ordering_key <= seq[b].address_index_ordering_key

\* C1: the status label of every rendered staker is fixed by its
\* missing-confirmations count: -1 gives "Never Confirmed (New Stake)", 0 gives
\* "Confirmed #<last active period>", 1 gives "Missing 1 confirmation" and
\* every N > 1 gives "Missing N confirmations".
C1_StatusLabel ==
    Rendered =>
        LET m == staker.missing_confirmations IN
        /\ Plain("staker_table") \in {echoed[k] : k \in DOMAIN echoed}
        /\ m = -1 => missing_info = "Never Confirmed (New Stake)"
        /\ m = 0 => missing_info = "Confirmed #" \o ToString(staker.last_active_period)
        /\ m = 1 => missing_info = "Missing 1 confirmation"
        /\ m > 1 => missing_info = "Missing " \o ToString(m) \o " confirmations"

C1_Witness ==
    /\ Rendered
    /\ staker.missing_confirmations = 1
    /\ missing_info = "Missing 1 confirmation"

\* C2: without paint_inactive the stake table of a rendered staker has a row
\* for a stake exactly when the stake is active; with paint_inactive it has one
\* row for every stake of the staker.
C2_InactiveFilter ==
    Rendered =>
        \A st \in StakeViews :
            Count(rows, st) =
                IF st.is_active \/ paint_inactive THEN Count(staker.stakes, st) ELSE 0

C2_Witness ==
    /\ Rendered /\ ~paint_inactive
    /\ Len(staker.stakes) = 2
    /\ staker.stakes[1].is_active /\ ~staker.stakes[2].is_active
    /\ rows = <<staker.stakes[1]>>

\* C3: visiting a staker with no stakes writes nothing, queries no agent and
\* leaves the rendered-stakers counter alone; and a call all of whose stakers
\* have no stakes ends with the "No Stakes found" notice.
C3_EmptyStakerSilent ==
    [][/\ (pc = "paint_stakes" /\ pc' = "paint_stakes_body" /\ staker'.stakes = <<>>)
            => /\ out' = out /\ echoed' = <<>>
               /\ queries' = queries
               /\ total_stakers' = total_stakers
       /\ (pc = "paint_stakes" /\ pc' = "done" /\ only_empty)
            => /\ echoed' = <<NoStakesFound>>
               /\ out' = Append(out, NoStakesFound)]_vars

C3_Witness ==
    /\ StakesDone /\ n = 2 /\ only_empty
    /\ out = <<NoStakesFound>> /\ queries = <<>> /\ total_stakers = 0

\* C4: the rows of a rendered staker's stake table are in non-decreasing order
\* of address_index_ordering_key whatever the order of the staker's stake list,
\* and they are the rows of the unfiltered table, in the same relative order,
\* less the inactive ones when paint_inactive is off.
C4_RowsSorted ==
    Rendered =>
        LET shown(st) == st.is_active \/ paint_inactive IN
        /\ KeySorted(rows)
        /\ KeySorted(stake_rows(sorted(staker.stakes), TRUE))
        /\ rows = SelectSeq(stake_rows(sorted(staker.stakes), TRUE), shown)

C4_Witness ==
    /\ Rendered /\ ~paint_inactive
    /\ Len(staker.stakes) = 3 /\ Len(rows) = 2
    /\ ~KeySorted(staker.stakes)
    /\ ~staker.stakes[2].is_active
    /\ rows = <<staker.stakes[3], staker.stakes[1]>>

\* C5: paint_staged_stake_division hands paint_staged_stake the original
\* stake's staker address and first locked period, the target value,
\* lock_periods = final_locked_period + extension - first_locked_period + 1 and
\* unlock_period = final_locked_period + extension + 1, so that
\* unlock_period - start_period = lock_periods.
C5_DivisionArithmetic ==
    call = "paint_staged_stake_division" =>
        LET original == division.original_stake
            newEndPeriod == original.final_locked_period + division.extension
            newDuration == newEndPeriod - original.first_locked_period + 1
        IN /\ staged.lock_periods = newDuration
           /\ staged.start_period = original.first_locked_period
           /\ staged.unlock_period = newEndPeriod + 1
           /\ staged.stake_value = division.target_value
           /\ staged.staking_address = original.staker_address
           /\ staged.unlock_period - staged.start_period = staged.lock_periods

C5_Witness ==
    /\ call = "paint_staged_stake_division" /\ pc = "done"
    /\ division.original_stake.first_locked_period = 1
    /\ division.original_stake.final_locked_period = 2
    /\ division.extension = 2
    /\ staged.lock_periods = 4 /\ staged.start_period = 1 /\ staged.unlock_period = 5

\* C6 (as claimed): for every staker paint_stakers visits whose last confirmed
\* period makes current_period - last_confirmed_period equal current_period, the
\* one activity line written is the red "Never confirmed activity".
C6_NeverConfirmedLine ==
    (Visited /\ current_period - agent.last_active_period = current_period) =>
        LET activity(w) == w.msg \in ActivityMsgs IN
        SelectSeq(echoed, activity) = <<Colored("Never confirmed activity", "red")>>

\* C7 (as claimed): for every staker paint_stakers visits, exactly one of the
\* four activity lines is written, right after the "Activity:" prefix.
C7_ExactlyOneActivityLine ==
    Visited =>
        /\ Cardinality(Positions(echoed, ActivityMsgs)) = 1
        /\ \A k \in Positions(echoed, ActivityMsgs) :
               k > 1 /\ echoed[k - 1] = Echo("Activity:", "default", FALSE, FALSE)

\* C8 (as claimed): a call of paint_stakes that puts no row in any stake table
\* writes the red "No Stakes found" notice exactly once, as its last write.
C8_NoticeWhenNoRow ==
    (StakesDone /\ ~row_painted) =>
        /\ Positions(out, {"No Stakes found"}) = {Len(out)}
        /\ out[Len(out)] = NoStakesFound

\* C8 (amended): a call of paint_stakes that renders no staker (it writes no
\* header and no table: every staker has no stakes or is not the one asked
\* for) writes the red "No Stakes found" notice exactly once, as its last write.
C8_NoticeWhenNoStaker ==
    (StakesDone /\ Positions(out, StakerMsgs) = {}) =>
        /\ Positions(out, {"No Stakes found"}) = {Len(out)}
        /\ out[Len(out)] = NoStakesFound

C8_Witness ==
    /\ StakesDone /\ n = 2 /\ stakes_seen > 0
    /\ Positions(out, StakerMsgs) = {}
    /\ out = <<NoStakesFound>>

\* C9: given an empty staker collection paint_stakes writes exactly "No staking
\* accounts found." and then the red "No Stakes found"; and no call writes "No
\* staking accounts found." together with a network line, header, worker line
\* or table.
C9_EmptyCollection ==
    /\ (StakesDone /\ n = 0) => out = <<NoAccountsFound, NoStakesFound>>
    /\ call = "paint_stakes" =>
           (Positions(out, {"No staking accounts found."}) = {}
            \/ Positions(out, StakerMsgs) = {})

C9_Witness ==
    /\ StakesDone /\ n = 0
    /\ out = <<NoAccountsFound, NoStakesFound>>

\* C10: the header of a rendered staker is green exactly when its
\* missing-confirmations count is 0, where the label is "Confirmed #<last active
\* period>", and red for every other count, -1 included.
C10_HeaderColour ==
    Rendered =>
        /\ Cardinality(Positions(echoed, {"Staker"})) = 1
        /\ \A k \in Positions(echoed, {"Staker"}) :
            /\ echoed[k].color \in {"green", "red"}
            /\ echoed[k].color = "green" <=> staker.missing_confirmations = 0
            /\ echoed[k].color = "green" <=>
                   missing_info = "Confirmed #" \o ToString(staker.last_active_period)

C10_Witness ==
    /\ Rendered
    /\ staker.missing_confirmations = -1
    /\ missing_info = "Never Confirmed (New Stake)"
    /\ \E k \in DOMAIN echoed : echoed[k].msg = "Staker" /\ echoed[k].color = "red"
====
